---- MODULE Spec2Model ----
(***************************************************************************)
(* Model of the openclean streaming data pipeline (openclean/pipeline.py)  *)
(* and of the data frame groupings (openclean/data/groupby.py).            *)
(*                                                                         *)
(* Three specifications share the module:                                  *)
(*   Spec       one execution of DataPipeline.run / DataPipeline.iterrows  *)
(*              over a row source, one loop iteration per step;            *)
(*   SpecBuild  the builder calls of DataPipeline on a heap of pipeline    *)
(*              objects and operator lists;                                *)
(*   SpecGroup  DataFrameGrouping.add and DataFrameViolation.add.          *)
(***************************************************************************)
EXTENDS Integers, Sequences, FiniteSets, TLC

VARIABLES
    \* ---- one execution of a pipeline (Spec) ----
    source,      \* rows of the reader, in order: [id, row]
    ops,         \* self.pipeline of the executed DataPipeline
    mode,        \* "none", "run" or "iterrows"
    pc,          \* position in run()/iterrows()
    chain,       \* consumers created by _open_pipeline, head first
    pos,         \* number of rows pulled from the reader so far
    readerOpen,  \* the reader's scoped resource is held
    opens,       \* number of acquisitions of the reader's resource
    releases,    \* number of releases of the reader's resource
    events,      \* calls made on the head consumer, in order
    result,      \* value returned by run()
    raised,      \* exception that left run()/iterrows(), "" if none
    yielded,     \* rows yielded by iterrows()
    \* ---- pipeline objects (SpecBuild) ----
    lists,       \* heap of Python list objects (operator lists)
    pipes,       \* heap of DataPipeline objects: index of self.pipeline
    parent,      \* pipeline object a pipeline was derived from (0: none)
    prevLists,   \* lists before the last call
    lastCall,    \* the last call: [name, self, ret, added, err]
    \* ---- groupings (SpecGroup) ----
    g_groups,    \* DataFrameGrouping._groups
    v_groups,    \* DataFrameViolation._groups
    v_meta,      \* DataFrameViolation._meta
    lastAdd,     \* the last add call: [cls, key, raised, before...]
    \* ---- groupby (SpecMap) ----
    tdf,         \* the data frame given to groupby: [columns, dtype, labels, rows]
    gfunc,       \* the key function: [cols, list]
    ghaving,     \* the having argument: [kind, n, f]
    gres,        \* the last call: [op, err, df, items]
    \* ---- violations and conflict summaries (SpecConflict, SpecSummary) ----
    vdf,         \* the data frame of the DataFrameViolation
    summary,     \* a ConflictSummary: ordered dict value -> [count, values]
    sumcols,     \* the columns of the last summarize_conflicts call
    ranking,     \* the last most_common call: [called, n, pairs]
    lastLookup,  \* the last lookup: [method, key, columns, kind, val, ...]
    distinctAdds, \* every list given to summary.add so far had distinct values
    \* ---- row aggregates Max, Min, Sum, Mean (SpecEval) ----
    eargs,       \* the arguments given to the constructor
    eschema,     \* the columns of the data frame given to prepare
    erow,        \* the row given to eval
    efn,         \* the function object: [stage, aggregator, values, err]
    eres,        \* the last eval: [list, out, err]
    \* ---- dataset handles of the engine (SpecEngine) ----
    dstore,      \* the store of the handle: snapshots [version, df]
    dlog,        \* the operation log: entries [identifier, version, ...]
    nextId,      \* the next unique identifier of a log entry
    fstore,      \* the datastore of the full dataset: snapshots
    lastOp       \* the last call: [name, err, ret, store, log, ...]

runVars == <<source, ops, mode, pc, chain, pos, readerOpen, opens, releases,
             events, result, raised, yielded>>
buildVars == <<lists, pipes, parent, prevLists, lastCall>>
groupVars == <<g_groups, v_groups, v_meta, lastAdd>>
mapVars == <<tdf, gfunc, ghaving, gres>>
conflictVars == <<vdf, summary, sumcols, ranking, lastLookup, distinctAdds>>
evalVars == <<eargs, eschema, erow, efn, eres>>
engineVars == <<dstore, dlog, nextId, fstore, lastOp>>
extVars == <<mapVars, conflictVars, evalVars, engineVars>>
vars == <<runVars, buildVars, groupVars, extVars>>

(***************************************************************************)
(* Bounds.                                                                 *)
(***************************************************************************)
MaxRows == 3      \* longest row source
MaxOps == 2       \* longest list of transforming operators that is executed
MaxLimit == 2     \* largest row quota of a Limit operator

(***************************************************************************)
(* Rows and schema of the row source.  A row is a list of cell values and  *)
(* is paired with a row identifier.  BadVal stands for a cell whose value  *)
(* is not a number: a comparison on it raises.                             *)
(***************************************************************************)
BadVal == -1
SourceSchema == <<"Name", "Age">>
RowValues == {<<7, 1>>, <<8, 2>>, <<7, BadVal>>}

\* Row identifier of the i-th row of the source: unique, not contiguous.
RowId(i) == 10 * i + 3

Sources ==
    UNION {{[i \in 1..n |-> [id |-> RowId(i), row |-> f[i]]] :
              f \in [1..n -> RowValues]} : n \in 0..MaxRows}

(***************************************************************************)
(* Stream operators.  An operator is an immutable value; all operators     *)
(* share one record shape.                                                 *)
(***************************************************************************)
Op(kind, col, thr, neg, n, cols) ==
    [kind |-> kind, col |-> col, thr |-> thr, neg |-> neg, n |-> n,
     cols |-> cols]

Filter(col, thr, negated) == Op("Filter", col, thr, negated, 0, <<>>)
Limit(rows) == Op("Limit", "", 0, FALSE, rows, <<>>)
Select(columns) == Op("Select", "", 0, FALSE, 0, columns)
Rename(names) == Op("Rename", "", 0, FALSE, 0, names)
InsCol(names) == Op("InsCol", "", 0, FALSE, 0, names)
Update(columns) == Op("Update", "", 0, FALSE, 0, columns)
Typecast == Op("Typecast", "", 0, FALSE, 0, <<>>)
DataFrame == Op("DataFrame", "", 0, FALSE, 0, <<>>)
RowCount == Op("RowCount", "", 0, FALSE, 0, <<>>)
Distinct == Op("Distinct", "", 0, FALSE, 0, <<>>)
ProfileOperator == Op("Profile", "", 0, FALSE, 0, <<>>)
Write == Op("Write", "", 0, FALSE, 0, <<>>)

\* Operators whose consumer is a collector: it has no set_consumer.
Terminal == {"DataFrame", "RowCount", "Distinct", "Profile", "Write"}

(***************************************************************************)
(* Stream consumers: the stateful, schema-bound instance an operator's     *)
(* open(schema) returns.  columns is the consumer's output schema.         *)
(***************************************************************************)
Range(s) == {s[i] : i \in 1..Len(s)}
IndexOf(schema, name) == CHOOSE i \in 1..Len(schema) : schema[i] = name

Consumer(kind, columns, idx, thr, neg, limit) ==
    [kind |-> kind, columns |-> columns, idx |-> idx, thr |-> thr,
     neg |-> neg, limit |-> limit, count |-> 0, data |-> <<>>]

\* open(schema) succeeds: every column the operator refers to is in the schema.
CanOpen(op, schema) ==
    CASE op.kind = "Filter" -> op.col \in Range(schema)
      [] op.kind = "Select" -> Range(op.cols) \subseteq Range(schema)
      [] op.kind = "Rename" -> Len(op.cols) = Len(schema)
      [] OTHER -> TRUE

open(op, schema) ==
    CASE op.kind = "Filter" ->
           Consumer("Filter", schema, <<IndexOf(schema, op.col)>>, op.thr,
                    op.neg, 0)
      [] op.kind = "Limit" ->
           Consumer("Limit", schema, <<>>, 0, FALSE, op.n)
      [] op.kind = "Select" ->
           Consumer("Select", op.cols,
                    [i \in 1..Len(op.cols) |-> IndexOf(schema, op.cols[i])],
                    0, FALSE, 0)
      [] op.kind = "Rename" ->
           Consumer("Rename", op.cols, <<>>, 0, FALSE, 0)
      [] OTHER ->
           Consumer(op.kind, schema, <<>>, 0, FALSE, 0)

\* consume(rowid, row) on consumer i of the chain c.  The outcome is "row"
\* (the row left the chain), "none" (dropped or collected), "stop"
\* (StopIteration) or "error" (any other exception).  State changes made
\* upstream of a consumer that raises are kept.
RECURSIVE consume(_, _, _)
consume(c, i, r) ==
    LET me == c[i]
        forward(c2, r2) ==
            IF i < Len(c2) THEN consume(c2, i + 1, r2)
            ELSE [out |-> "row", chain |-> c2, row |-> r2]
        drop(c2) == [out |-> "none", chain |-> c2, row |-> r]
    IN  CASE me.kind = "Filter" ->
               IF r.row[me.idx[1]] = BadVal
               THEN [out |-> "error", chain |-> c, row |-> r]
               ELSE IF (r.row[me.idx[1]] > me.thr) # me.neg
                    THEN forward(c, r)
                    ELSE drop(c)
          [] me.kind = "Limit" ->
               IF me.count < me.limit
               THEN forward([c EXCEPT ![i].count = @ + 1], r)
               ELSE [out |-> "stop", chain |-> c, row |-> r]
          [] me.kind = "Select" ->
               forward(c, [r EXCEPT !.row =
                              [k \in 1..Len(me.idx) |-> r.row[me.idx[k]]]])
          [] me.kind = "DataFrame" ->
               drop([c EXCEPT ![i].data = Append(@, r)])
          [] me.kind = "RowCount" ->
               drop([c EXCEPT ![i].count = @ + 1])
          [] OTHER -> forward(c, r)

\* Values returned by close().
None == [kind |-> "None", columns |-> <<>>, rows |-> <<>>, n |-> 0]
Frame(columns, rows) ==
    [kind |-> "DataFrame", columns |-> columns, rows |-> rows, n |-> 0]
Count(n) == [kind |-> "Count", columns |-> <<>>, rows |-> <<>>, n |-> n]

\* close() on the head consumer: every producing consumer passes the call on
\* to its successor, the collector at the end returns its result; a chain
\* without collector returns None.
close(c) ==
    LET last == c[Len(c)]
    IN  CASE last.kind = "DataFrame" -> Frame(last.columns, last.data)
          [] last.kind = "RowCount" -> Count(last.count)
          [] OTHER -> None

(***************************************************************************)
(* DataPipeline._open_pipeline: the first operator is opened with the      *)
(* reader's schema, each further operator with the output schema of the    *)
(* consumer before it, and the consumers are linked in operator order.     *)
(***************************************************************************)
RECURSIVE open_chain(_, _)
open_chain(pipeline, schema) ==
    IF pipeline = <<>> THEN <<>>
    ELSE LET consumer == open(Head(pipeline), schema)
         IN  <<consumer>> \o open_chain(Tail(pipeline), consumer.columns)

\* _open_pipeline raises: an operator cannot be bound to its input schema, or
\* a collector is asked to take a successor (it has no set_consumer).
RECURSIVE open_fails(_, _)
open_fails(pipeline, schema) ==
    IF pipeline = <<>> THEN FALSE
    ELSE \/ ~CanOpen(Head(pipeline), schema)
         \/ (Head(pipeline).kind \in Terminal /\ Len(pipeline) > 1)
         \/ open_fails(Tail(pipeline), open(Head(pipeline), schema).columns)

\* _open_pipeline with every operator opened with the schema of the reader
open_pipeline_unchained(pipeline) ==
    [i \in 1..Len(pipeline) |-> open(pipeline[i], SourceSchema)]

open_pipeline(pipeline) ==
    open_chain(pipeline, SourceSchema)

(***************************************************************************)
(* The row source (reader).  Its open() is a scoped acquisition: the       *)
(* resource is released when the scope is left, on every path.  Its        *)
(* iterrows() is a generator around the same scope.                        *)
(***************************************************************************)
reader_open ==
    /\ readerOpen' = TRUE
    /\ opens' = opens + 1
    /\ UNCHANGED releases

reader_exit ==
    /\ readerOpen' = FALSE
    /\ releases' = releases + 1
    /\ UNCHANGED opens

(***************************************************************************)
(* Pipelines that are executed: at most MaxOps transforming operators,     *)
(* optionally followed by one collector (what stream(op) builds).          *)
(***************************************************************************)
Transforms ==
    {Filter("Age", 1, FALSE), Filter("Age", 1, TRUE),
     Select(<<"Age", "Name">>), Select(<<"Name">>)}
    \cup {Limit(n) : n \in 0..MaxLimit}

Collectors == {DataFrame, RowCount}

TransformLists == UNION {[1..n -> Transforms] : n \in 0..MaxOps}

RunPipelines ==
    TransformLists \cup {t \o <<c>> : t \in TransformLists, c \in Collectors}

RunInit ==
    /\ source \in Sources
    /\ ops \in RunPipelines
    /\ mode = "none"
    /\ pc = "ready"
    /\ chain = <<>>
    /\ pos = 0
    /\ readerOpen = FALSE
    /\ opens = 0
    /\ releases = 0
    /\ events = <<>>
    /\ result = None
    /\ raised = ""
    /\ yielded = <<>>

(***************************************************************************)
(* DataPipeline.run, one step per loop iteration.                          *)
(*   ready -> loop -> close -> done, or -> raised when an exception        *)
(*   leaves run().                                                         *)
(***************************************************************************)
\* with self.reader.open() as stream: if not self.pipeline: return None
run_empty_opened ==
    /\ pc' = "done"
    /\ result' = None
    /\ readerOpen' = FALSE
    /\ opens' = opens + 1
    /\ releases' = releases + 1
    /\ UNCHANGED <<chain, events, raised>>

\* if not self.pipeline: return None
run_empty ==
    /\ pc' = "done"
    /\ result' = None
    /\ UNCHANGED <<chain, events, raised, readerOpen, opens, releases>>

\* consumer = self._open_pipeline(); with self.reader.open() as stream:
run_begin ==
    /\ pc = "ready"
    /\ mode' = "run"
    /\ IF ops = <<>>
       THEN run_empty
       ELSE IF open_fails(ops, SourceSchema)
       THEN /\ pc' = "raised"
            /\ raised' = "open"
            /\ UNCHANGED <<chain, events, result, readerOpen, opens, releases>>
       ELSE /\ chain' = open_pipeline(ops)
            /\ events' = <<"open">>
            /\ reader_open
            /\ pc' = "loop"
            /\ UNCHANGED <<result, raised>>
    /\ UNCHANGED <<buildVars, groupVars, extVars>>
    /\ UNCHANGED <<source, ops, pos, yielded>>

\* except StopIteration: continue
run_stop_continue ==
    /\ events' = events \o <<"consume", "stop">>
    /\ pc' = "loop"
    /\ UNCHANGED <<raised, readerOpen, opens, releases>>

\* except StopIteration: break   (the break leaves the with block)
run_stop ==
    /\ events' = events \o <<"consume", "stop">>
    /\ reader_exit
    /\ pc' = "close"
    /\ UNCHANGED raised

\* except Exception: break
run_error_break ==
    /\ events' = events \o <<"consume", "error">>
    /\ reader_exit
    /\ pc' = "close"
    /\ UNCHANGED raised

\* stream = self.reader.open() without with block
run_error_leak ==
    /\ events' = events \o <<"consume", "error">>
    /\ pc' = "raised"
    /\ raised' = "error"
    /\ UNCHANGED <<readerOpen, opens, releases>>

\* Any other exception is not caught: it leaves the with block and run().
run_error ==
    /\ events' = events \o <<"consume", "error">>
    /\ reader_exit
    /\ pc' = "raised"
    /\ raised' = "error"

\* for rowid, row in stream: try: consumer.consume(rowid=rowid, row=row)
run_consume ==
    /\ pc = "loop"
    /\ mode = "run"
    /\ pos < Len(source)
    /\ LET o == consume(chain, 1, source[pos + 1])
       IN  /\ pos' = pos + 1
           /\ chain' = o.chain
           /\ CASE o.out = "stop" -> run_stop
                [] o.out = "error" -> run_error
                [] OTHER ->
                     /\ events' = Append(events, "consume")
                     /\ pc' = "loop"
                     /\ UNCHANGED <<raised, readerOpen, opens, releases>>
    /\ UNCHANGED <<buildVars, groupVars, extVars>>
    /\ UNCHANGED <<source, ops, mode, result, yielded>>

\* The stream has no further row: the for loop and the with block end.
run_exhausted ==
    /\ pc = "loop"
    /\ mode = "run"
    /\ pos = Len(source)
    /\ reader_exit
    /\ pc' = "close"
    /\ UNCHANGED <<buildVars, groupVars, extVars>>
    /\ UNCHANGED <<source, ops, mode, chain, pos, events, result, raised,
                   yielded>>

\* consumer.close() without return
run_close_noreturn ==
    /\ pc = "close"
    /\ mode = "run"
    /\ result' = None
    /\ events' = Append(events, "close")
    /\ pc' = "done"
    /\ UNCHANGED <<buildVars, groupVars, extVars>>
    /\ UNCHANGED <<source, ops, mode, chain, pos, readerOpen, opens, releases,
                   raised, yielded>>

\* return consumer.close()
run_close ==
    /\ pc = "close"
    /\ mode = "run"
    /\ result' = close(chain)
    /\ events' = Append(events, "close")
    /\ pc' = "done"
    /\ UNCHANGED <<buildVars, groupVars, extVars>>
    /\ UNCHANGED <<source, ops, mode, chain, pos, readerOpen, opens, releases,
                   raised, yielded>>

(***************************************************************************)
(* DataPipeline.iterrows, driven to its end by the caller.                 *)
(***************************************************************************)
\* if self.pipeline: consumer = self._open_pipeline();
\* for rowid, row in self.reader.iterrows(): ...
iterrows_begin ==
    /\ pc = "ready"
    /\ mode' = "iterrows"
    /\ IF ops # <<>> /\ open_fails(ops, SourceSchema)
       THEN /\ pc' = "raised"
            /\ raised' = "open"
            /\ UNCHANGED <<chain, events, readerOpen, opens, releases>>
       ELSE /\ chain' = IF ops = <<>> THEN <<>> ELSE open_pipeline(ops)
            /\ events' = IF ops = <<>> THEN <<>> ELSE <<"open">>
            /\ reader_open
            /\ pc' = "loop"
            /\ UNCHANGED raised
    /\ UNCHANGED <<buildVars, groupVars, extVars>>
    /\ UNCHANGED <<source, ops, pos, result, yielded>>

\* try: row = consumer.consume(rowid, row); if row is not None: yield rowid, row
\* except StopIteration: break
\* (without operators: yield rowid, row)
iterrows_consume ==
    /\ pc = "loop"
    /\ mode = "iterrows"
    /\ pos < Len(source)
    /\ pos' = pos + 1
    /\ IF ops = <<>>
       THEN /\ yielded' = Append(yielded, source[pos + 1])
            /\ UNCHANGED <<chain, events, pc, raised, readerOpen, opens,
                           releases>>
       ELSE LET o == consume(chain, 1, source[pos + 1])
            IN  /\ chain' = o.chain
                /\ CASE o.out = "stop" ->
                          /\ events' = events \o <<"consume", "stop">>
                          /\ reader_exit
                          /\ pc' = "close"
                          /\ UNCHANGED <<raised, yielded>>
                     [] o.out = "error" ->
                          /\ events' = events \o <<"consume", "error">>
                          /\ reader_exit
                          /\ pc' = "raised"
                          /\ raised' = "error"
                          /\ UNCHANGED yielded
                     [] o.out = "row" ->
                          /\ events' = Append(events, "consume")
                          /\ yielded' = Append(yielded, o.row)
                          /\ UNCHANGED <<pc, raised, readerOpen, opens,
                                         releases>>
                     [] OTHER ->
                          /\ events' = Append(events, "consume")
                          /\ UNCHANGED <<pc, raised, readerOpen, opens,
                                         releases, yielded>>
    /\ UNCHANGED <<buildVars, groupVars, extVars>>
    /\ UNCHANGED <<source, ops, mode, result>>

\* reader.iterrows() is exhausted.
iterrows_exhausted ==
    /\ pc = "loop"
    /\ mode = "iterrows"
    /\ pos = Len(source)
    /\ reader_exit
    /\ pc' = IF ops = <<>> THEN "done" ELSE "close"
    /\ UNCHANGED <<buildVars, groupVars, extVars>>
    /\ UNCHANGED <<source, ops, mode, chain, pos, events, result, raised,
                   yielded>>

\* consumer.close()
iterrows_close ==
    /\ pc = "close"
    /\ mode = "iterrows"
    /\ events' = Append(events, "close")
    /\ pc' = "done"
    /\ UNCHANGED <<buildVars, groupVars, extVars>>
    /\ UNCHANGED <<source, ops, mode, chain, pos, readerOpen, opens, releases,
                   result, raised, yielded>>

(***************************************************************************)
(* Pipeline objects.  A DataPipeline holds a reference to a Python list of *)
(* operators.  The heap h = [lists, pipes, parent] has the list objects,   *)
(* for every pipeline object the index of its list, and for every          *)
(* pipeline object the call that created it.  Every method returns the     *)
(* heap after the call, with ret the returned pipeline object (0: the      *)
(* call returns no pipeline) and err the exception raised ("": none).      *)
(***************************************************************************)
MaxPipes == 3     \* pipeline objects on the heap

NoArg == <<"<None>">>     \* an optional list argument that is not given
NoLimit == -1             \* limit=None

Returned(h, ret) ==
    [lists |-> h.lists, pipes |-> h.pipes, parent |-> h.parent,
     ret |-> ret, err |-> ""]
Raise(h, err) ==
    [lists |-> h.lists, pipes |-> h.pipes, parent |-> h.parent,
     ret |-> 0, err |-> err]

\* self.pipeline.append(op); DataPipeline(reader, pipeline=self.pipeline)
append_inplace(h, self, op) ==
    [lists |-> [h.lists EXCEPT ![h.pipes[self]] = @ \o <<op>>],
     pipes |-> Append(h.pipes, h.pipes[self]),
     parent |-> Append(h.parent, [of |-> self, op |-> op]),
     ret |-> Len(h.pipes) + 1,
     err |-> ""]

\* DataPipeline(reader=self.reader, pipeline=self.pipeline + [op]):
\* list concatenation creates a new list object.
append(h, self, op) ==
    LET lists2 == Append(h.lists, h.lists[h.pipes[self]] \o <<op>>)
    IN  [lists |-> lists2,
         pipes |-> Append(h.pipes, Len(lists2)),
         parent |-> Append(h.parent, [of |-> self, op |-> op]),
         ret |-> Len(h.pipes) + 1,
         err |-> ""]

limit(h, self, count) == append(h, self, Limit(count))

delete(h, self, predicate) ==
    append(h, self, Filter(predicate[1], predicate[2], TRUE))

filter(h, self, predicate, lim) ==
    LET ds == append(h, self, Filter(predicate[1], predicate[2], FALSE))
    IN  IF lim = NoLimit THEN ds ELSE limit(ds, ds.ret, lim)

where(h, self, predicate, lim) == filter(h, self, predicate, lim)

insert(h, self, names) == append(h, self, InsCol(names))

typecast(h, self) == append(h, self, Typecast)

\* if len(args) < 1: raise ValueError
update(h, self, args) ==
    IF Len(args) < 1 THEN Raise(h, "ValueError")
    ELSE append(h, self, Update(SubSeq(args, 1, Len(args) - 1)))

\* names is ignored
select_norename(h, self, columns, names) ==
    IF columns = NoArg THEN Raise(h, "AttributeError")
    ELSE append(h, self, Select(columns))

\* columns is None: len(self.columns) is evaluated, and a DataPipeline has
\* no attribute columns (__init__ does not keep its columns argument).
select(h, self, columns, names) ==
    IF columns = NoArg THEN Raise(h, "AttributeError")
    ELSE LET ds == append(h, self, Select(columns))
         IN  IF names = NoArg THEN ds ELSE append(ds, ds.ret, Rename(names))

\* run() reads self.pipeline and creates fresh consumers: the heap is as it
\* was.  The returned value is not a pipeline.
run(h, self) == Returned(h, 0)

\* self.append(op).run()
stream(h, self, op) ==
    LET ds == append(h, self, op) IN run(ds, ds.ret)

count(h, self) == stream(h, self, RowCount)

distinct(h, self, columns, names) ==
    IF columns # NoArg
    THEN LET ds == select(h, self, columns, names)
         IN  stream(ds, ds.ret, Distinct)
    ELSE stream(h, self, Distinct)

to_df(h, self) == stream(h, self, DataFrame)

head(h, self, n) ==
    LET ds == limit(h, self, n) IN to_df(ds, ds.ret)

profile(h, self) == stream(h, self, ProfileOperator)

write(h, self) == stream(h, self, Write)

\* Arguments of the calls.
Predicates == {<<"Age", 1>>}
LimitArgs == {NoLimit, 1}
ColumnArgs == {NoArg, <<"Age">>}
NameArgs == {NoArg, <<"A">>}
UpdateArgs == {<<>>, <<"f">>, <<"Age", "f">>}

Heap == [lists |-> lists, pipes |-> pipes, parent |-> parent]
OpsOf(p) == lists[pipes[p]]

\* DataPipeline(reader, pipeline): without pipeline argument the operator
\* list is a new empty list, otherwise the given list.
InitialLists == {<<>>, <<Limit(2)>>}

BuildInit ==
    /\ lists \in {<<l>> : l \in InitialLists}
    /\ pipes = <<1>>
    /\ parent = <<[of |-> 0, op |-> Typecast]>>
    /\ prevLists = lists
    /\ lastCall = [name |-> "__init__", self |-> 0, ret |-> 1, err |-> "",
                   names |-> FALSE, lim |-> FALSE]

\* The call name(...) on pipeline object self left the heap r.
Call(name, self, r, withNames, withLimit) ==
    /\ Len(pipes) < MaxPipes
    /\ Len(r.pipes) <= MaxPipes
    /\ lists' = r.lists
    /\ pipes' = r.pipes
    /\ parent' = r.parent
    /\ prevLists' = lists
    /\ lastCall' = [name |-> name, self |-> self, ret |-> r.ret,
                    err |-> r.err, names |-> withNames, lim |-> withLimit]
    /\ UNCHANGED <<runVars, groupVars, extVars>>

Pipes == 1..Len(pipes)

call_append ==
    \E p \in Pipes : Call("append", p, append(Heap, p, Typecast), FALSE, FALSE)
call_select ==
    \E p \in Pipes, c \in ColumnArgs, n \in NameArgs :
        Call("select", p, select(Heap, p, c, n), n # NoArg, FALSE)
call_filter ==
    \E p \in Pipes, f \in Predicates, l \in LimitArgs :
        Call("filter", p, filter(Heap, p, f, l), FALSE, l # NoLimit)
call_where ==
    \E p \in Pipes, f \in Predicates, l \in LimitArgs :
        Call("where", p, where(Heap, p, f, l), FALSE, l # NoLimit)
call_delete ==
    \E p \in Pipes, f \in Predicates :
        Call("delete", p, delete(Heap, p, f), FALSE, FALSE)
call_insert ==
    \E p \in Pipes : Call("insert", p, insert(Heap, p, <<"B">>), FALSE, FALSE)
call_update ==
    \E p \in Pipes, a \in UpdateArgs :
        Call("update", p, update(Heap, p, a), FALSE, FALSE)
call_typecast ==
    \E p \in Pipes : Call("typecast", p, typecast(Heap, p), FALSE, FALSE)
call_limit ==
    \E p \in Pipes : Call("limit", p, limit(Heap, p, 1), FALSE, FALSE)
call_run ==
    \E p \in Pipes : Call("run", p, run(Heap, p), FALSE, FALSE)
call_stream ==
    \E p \in Pipes : Call("stream", p, stream(Heap, p, RowCount), FALSE, FALSE)
call_count ==
    \E p \in Pipes : Call("count", p, count(Heap, p), FALSE, FALSE)
call_distinct ==
    \E p \in Pipes, c \in ColumnArgs, n \in NameArgs :
        Call("distinct", p, distinct(Heap, p, c, n), n # NoArg, FALSE)
call_head ==
    \E p \in Pipes : Call("head", p, head(Heap, p, 1), FALSE, FALSE)
call_to_df ==
    \E p \in Pipes : Call("to_df", p, to_df(Heap, p), FALSE, FALSE)
call_profile ==
    \E p \in Pipes : Call("profile", p, profile(Heap, p), FALSE, FALSE)
call_write ==
    \E p \in Pipes : Call("write", p, write(Heap, p), FALSE, FALSE)

(***************************************************************************)
(* Groupings.  A Python dict is a function whose domain is the set of its  *)
(* keys.  A metadata value is a Counter or None.                           *)
(***************************************************************************)
EmptyDict == [k \in {} |-> <<>>]
DictSet(d, key, value) ==
    [k \in DOMAIN d \cup {key} |-> IF k = key THEN value ELSE d[k]]

Keys == {"k1", "k2"}
RowLists == {<<0>>, <<1>>, <<0, 1>>}
NoneMeta == [none |-> TRUE, counter |-> <<>>]
Metas == {NoneMeta,
          [none |-> FALSE, counter |-> <<<<1, 2>>>>],
          [none |-> FALSE, counter |-> <<<<1, 1>>, <<2, 1>>>>]}

GroupInit ==
    /\ g_groups = EmptyDict
    /\ v_groups = EmptyDict
    /\ v_meta = EmptyDict
    /\ lastAdd = [cls |-> "", key |-> "", raised |-> "",
                  groups |-> EmptyDict, meta |-> EmptyDict]

\* self._groups[key] = rows before the check for a duplicate
DataFrameGrouping_add_overwrite(key, rows) ==
    /\ lastAdd' = [cls |-> "DataFrameGrouping", key |-> key,
                   raised |-> IF key \in DOMAIN g_groups
                              THEN "ValueError" ELSE "",
                   groups |-> g_groups, meta |-> EmptyDict]
    /\ g_groups' = DictSet(g_groups, key, rows)
    /\ UNCHANGED <<v_groups, v_meta>>

\* DataFrameGrouping.add(key, rows)
\*   if key in self._groups: raise ValueError
\*   self._groups[key] = rows
DataFrameGrouping_add(key, rows) ==
    /\ lastAdd' = [cls |-> "DataFrameGrouping", key |-> key,
                   raised |-> IF key \in DOMAIN g_groups
                              THEN "ValueError" ELSE "",
                   groups |-> g_groups, meta |-> EmptyDict]
    /\ IF key \in DOMAIN g_groups
       THEN UNCHANGED g_groups
       ELSE g_groups' = DictSet(g_groups, key, rows)
    /\ UNCHANGED <<v_groups, v_meta>>

\* DataFrameViolation.add(key, rows, meta)
\*   self._meta[key] = meta
\*   super().add(key, rows)     (raises ValueError for a key in _groups)
DataFrameViolation_add(key, rows, meta) ==
    /\ lastAdd' = [cls |-> "DataFrameViolation", key |-> key,
                   raised |-> IF key \in DOMAIN v_groups
                              THEN "ValueError" ELSE "",
                   groups |-> v_groups, meta |-> v_meta]
    /\ v_meta' = DictSet(v_meta, key, meta)
    /\ IF key \in DOMAIN v_groups
       THEN UNCHANGED v_groups
       ELSE v_groups' = DictSet(v_groups, key, rows)
    /\ UNCHANGED g_groups

grouping_add ==
    /\ \E key \in Keys, rows \in RowLists : DataFrameGrouping_add(key, rows)
    /\ UNCHANGED <<runVars, buildVars, extVars>>

violation_add ==
    /\ \E key \in Keys, rows \in RowLists, meta \in Metas :
           DataFrameViolation_add(key, rows, meta)
    /\ UNCHANGED <<runVars, buildVars, extVars>>

(***************************************************************************)
(* Data frames.  A data frame has column names, a row index (its dtype and *)
(* one label per row) and rows of cell values.  Positions and labels count *)
(* from 0; a row at position p is rows[p + 1].  Labels of an index that is *)
(* not of dtype int stand for the codes of the (string) labels.            *)
(***************************************************************************)
MaxTRows == 2     \* rows of a grouped data frame

TableColumns == <<"a", "b">>
CellValues == {1, 2}

Tables ==
    UNION {[columns : {TableColumns},
            dtype : {"int", "object"},
            labels : [1..n -> 0..MaxTRows],
            rows : [1..n -> [1..Len(TableColumns) -> CellValues]]] :
           n \in 0..MaxTRows}

NRows(df) == Len(df.rows)
Positions(df) == 0..(NRows(df) - 1)

\* df.index.duplicated().any()
duplicated_any(df) ==
    \E i, j \in 1..NRows(df) : i < j /\ df.labels[i] = df.labels[j]

\* df.reset_index(): the labels become 0..n-1 and the old labels become the
\* first column, named "index".
reset_index(df) ==
    [columns |-> <<"index">> \o df.columns,
     dtype |-> "int",
     labels |-> [i \in 1..NRows(df) |-> i - 1],
     rows |-> [i \in 1..NRows(df) |-> <<df.labels[i]>> \o df.rows[i]]]

(***************************************************************************)
(* Insertion-ordered dictionaries (Python dict): a sequence of entries     *)
(* [key, val] with distinct keys.                                          *)
(***************************************************************************)
DictKeys(d) == {d[i].key : i \in 1..Len(d)}
DictHas(d, key) == key \in DictKeys(d)
DictGet(d, key) == d[CHOOSE i \in 1..Len(d) : d[i].key = key].val
DictPut(d, key, val) ==
    IF DictHas(d, key)
    THEN [i \in 1..Len(d) |->
             IF d[i].key = key THEN [key |-> key, val |-> val] ELSE d[i]]
    ELSE Append(d, [key |-> key, val |-> val])

(***************************************************************************)
(* GroupBy  (openclean/operator/map/groupby.py).                           *)
(***************************************************************************)
\* Key functions of get_eval_func(columns): one column name evaluates to a
\* scalar, several column names evaluate to a list.
KeyFuncs ==
    {[cols |-> <<"a">>, list |-> FALSE], [cols |-> <<"a", "b">>, list |-> TRUE]}

\* prepared.eval(rows): the cells of the row in the columns of the function.
eval_columns(df, f, i) ==
    [k \in 1..Len(f.cols) |-> df.rows[i][IndexOf(df.columns, f.cols[k])]]

\* value = prepared.eval(rows), then tuple(value) for a list: a key is a
\* scalar (t = FALSE) or a tuple (t = TRUE).
KeyOf(df, f, i) ==
    [t |-> f.list, v |-> eval_columns(df, f, i)]

\* GroupBy._transform: for index, rows in df.iterrows(): the index label of
\* the row is appended to the list of the row's key.
RECURSIVE transform(_, _, _, _)
transform(df, f, i, groups) ==
    IF i > NRows(df) THEN groups
    ELSE LET value == KeyOf(df, f, i)
             old == IF DictHas(groups, value) THEN DictGet(groups, value)
                    ELSE <<>>
         IN  transform(df, f, i + 1,
                       DictPut(groups, value, Append(old, df.labels[i])))

\* GroupBy.map: the index is reset when a label is duplicated or the dtype
\* of the index is not int; every key of _transform is added once.
map(df, f) ==
    LET df_reindexed ==
            IF duplicated_any(df) \/ df.dtype # "int"
            THEN reset_index(df) ELSE df
    IN  [err |-> "", df |-> df_reindexed,
         items |-> transform(df_reindexed, f, 1, <<>>)]

\* DataFrameGrouping.get: None for an unknown key; otherwise the rows of
\* self.df at the positions in the key's list.  predicate[rowidx] raises
\* IndexError for a rowidx that is not a position.
get(g, key) ==
    IF ~DictHas(g.items, key) THEN [kind |-> "None", pos |-> {}]
    ELSE LET rows == DictGet(g.items, key)
         IN  IF \E r \in Range(rows) : r \notin Positions(g.df)
             THEN [kind |-> "IndexError", pos |-> {}]
             ELSE [kind |-> "frame", pos |-> Range(rows)]

\* Callables given as having: the value returned for a group of n rows.
HavingResult(c, n) ==
    CASE c = "more_than_one" -> IF n > 1 THEN "True" ELSE "False"
      [] c = "true_or_none" -> IF n > 1 THEN "True" ELSE "NonBool"
      [] OTHER -> "NonBool"

NoHaving == [kind |-> "none", n |-> 0, f |-> ""]
Havings ==
    {NoHaving}
    \cup {[kind |-> "int", n |-> n, f |-> ""] : n \in 1..MaxTRows}
    \cup {[kind |-> "callable", n |-> 0, f |-> c] :
             c \in {"more_than_one", "true_or_none", "count"}}

\* GroupBy.select(group, condition): "True", "False" or "TypeError".
group_select(size, condition) ==
    CASE condition.kind = "none" -> "True"
      [] condition.kind = "int" ->
           IF size = condition.n THEN "True" ELSE "False"
      [] OTHER ->
           IF HavingResult(condition.f, size) = "NonBool" THEN "TypeError"
           ELSE HavingResult(condition.f, size)

\* list(group.index): the labels of the rows of df at the positions at, in
\* table order.
RECURSIVE index_of_group(_, _, _)
index_of_group(df, at, i) ==
    IF i > NRows(df) THEN <<>>
    ELSE (IF (i - 1) \in at THEN <<df.labels[i]>> ELSE <<>>)
         \o index_of_group(df, at, i + 1)

\* The loop of groupby over all_groups.groups(), from entry i on.
RECURSIVE select_groups(_, _, _, _, _)
select_groups(df, all, having, i, selected) ==
    IF i > Len(all.items)
    THEN [err |-> "", df |-> df, items |-> selected]
    ELSE LET key == all.items[i].key
             group == get(all, key)
             keep == group_select(Cardinality(group.pos), having)
         IN  IF group.kind = "IndexError"
             THEN [err |-> "IndexError", df |-> df, items |-> <<>>]
             ELSE IF keep = "TypeError"
             THEN [err |-> "TypeError", df |-> df, items |-> <<>>]
             ELSE select_groups(df, all, having, i + 1,
                    IF keep = "True"
                    THEN DictPut(selected, key,
                                 index_of_group(all.df, group.pos, 1))
                    ELSE selected)

\* groupby(df, columns, having)
groupby(df, f, having) ==
    LET all_groups == map(df, f)
    IN  IF having.kind # "none"
        THEN select_groups(df, all_groups, having, 1, <<>>)
        ELSE all_groups

NoResult == [op |-> "", err |-> "", df |-> [columns |-> <<>>, dtype |-> "int",
                                            labels |-> <<>>, rows |-> <<>>],
             items |-> <<>>]
Called(op, r) == [op |-> op, err |-> r.err, df |-> r.df, items |-> r.items]

MapInit ==
    /\ tdf \in Tables
    /\ gfunc \in KeyFuncs
    /\ ghaving \in Havings
    /\ gres = NoResult

MapIdle ==
    /\ tdf = NoResult.df
    /\ gfunc = [cols |-> <<>>, list |-> FALSE]
    /\ ghaving = NoHaving
    /\ gres = NoResult

\* GroupBy(columns).map(df)
call_map ==
    /\ gres.op = ""
    /\ gres' = Called("map", map(tdf, gfunc))
    /\ UNCHANGED <<tdf, gfunc, ghaving>>
    /\ UNCHANGED <<runVars, buildVars, groupVars, conflictVars, evalVars, engineVars>>

\* groupby(df, columns, having=having)
call_groupby ==
    /\ gres.op = ""
    /\ gres' = Called("groupby", groupby(tdf, gfunc, ghaving))
    /\ UNCHANGED <<tdf, gfunc, ghaving>>
    /\ UNCHANGED <<runVars, buildVars, groupVars, conflictVars, evalVars, engineVars>>


(***************************************************************************)
(* Lookups in a grouping and conflict summaries                            *)
(* (openclean/data/groupby.py).  A Counter is an insertion-ordered         *)
(* dictionary value -> count.                                              *)
(***************************************************************************)
MaxVRows == 3     \* rows of the data frame of a DataFrameViolation
MaxCount == 2     \* highest count of a value in a ConflictSummary built by add

\* select_clause(self.df.columns, columns)[1]: the index positions of the
\* columns.
select_clause(schema, columns) ==
    [k \in 1..Len(columns) |-> IndexOf(schema, columns[k])]

\* The value of a row in values(): the cell for one column, the tuple of
\* the cells for several columns.
RowValue(df, colidx, rowidx) ==
    [t |-> Len(colidx) # 1,
     v |-> [k \in 1..Len(colidx) |-> df.rows[rowidx + 1][colidx[k]]]]

\* result[value] += 1
Increment(counter, value) ==
    DictPut(counter, value,
            IF DictHas(counter, value) THEN DictGet(counter, value) + 1 ELSE 1)

RECURSIVE count_values(_, _, _, _, _)
count_values(df, colidx, rowlist, i, counter) ==
    IF i > Len(rowlist) THEN counter
    ELSE count_values(df, colidx, rowlist, i + 1,
                      Increment(counter, RowValue(df, colidx, rowlist[i])))

\* DataFrameGrouping.rows without the check for an unknown key
rows_default(groups, key) ==
    IF key \notin DOMAIN groups THEN [kind |-> "list", val |-> <<>>]
    ELSE [kind |-> "list", val |-> groups[key]]

\* DataFrameGrouping.rows
rows(groups, key) ==
    IF key \notin DOMAIN groups THEN [kind |-> "None", val |-> <<>>]
    ELSE [kind |-> "list", val |-> groups[key]]

\* DataFrameGrouping.values with every value counted once
values_once(df, groups, key, columns) ==
    LET colidx == select_clause(df.columns, columns)
        counter == IF key \in DOMAIN groups
                   THEN count_values(df, colidx, groups[key], 1, <<>>)
                   ELSE <<>>
    IN  IF key \notin DOMAIN groups THEN [kind |-> "None", val |-> <<>>]
        ELSE [kind |-> "Counter",
              val |-> [i \in 1..Len(counter) |->
                          [key |-> counter[i].key, val |-> 1]]]

\* DataFrameGrouping.values
values(df, groups, key, columns) ==
    LET colidx == select_clause(df.columns, columns)
    IN  IF key \notin DOMAIN groups THEN [kind |-> "None", val |-> <<>>]
        ELSE [kind |-> "Counter",
              val |-> count_values(df, colidx, groups[key], 1, <<>>)]

\* DataFrameViolation.get_meta
get_meta(meta, key) ==
    IF key \notin DOMAIN meta THEN [kind |-> "None", val |-> <<>>]
    ELSE IF meta[key].none THEN [kind |-> "None", val |-> <<>>]
    ELSE [kind |-> "Counter", val |-> meta[key].counter]

\* The groups of a grouping as the entries of DataFrameGrouping.get.
ItemsOf(groups) ==
    LET entry(k) == IF k \in DOMAIN groups
                    THEN <<[key |-> k, val |-> groups[k]]>> ELSE <<>>
    IN  entry("k1") \o entry("k2")

\* ValueConflicts(): the default entry of a ConflictSummary
ValueConflicts == [count |-> 0, values |-> <<>>]

\* The inner loop of ConflictSummary.add: value_conflicts.values[c_val] += 1
\* for every c_val != val.
RECURSIVE add_partners(_, _, _, _)
add_partners(counter, values_, val, j) ==
    IF j > Len(values_) THEN counter
    ELSE add_partners(IF values_[j] # val THEN Increment(counter, values_[j])
                      ELSE counter,
                      values_, val, j + 1)

\* ConflictSummary.add, from the i-th value on: self[val] creates the entry
\* of a new value.
RECURSIVE ConflictSummary_add(_, _, _)
ConflictSummary_add(smry, values_, i) ==
    IF i > Len(values_) THEN smry
    ELSE LET val == values_[i]
             old == IF DictHas(smry, val) THEN DictGet(smry, val)
                    ELSE ValueConflicts
         IN  ConflictSummary_add(
                 DictPut(smry, val,
                         [count |-> old.count + 1,
                          values |-> add_partners(old.values, values_, val, 1)]),
                 values_, i + 1)

\* list(counter.keys())
KeyList(counter) == [i \in 1..Len(counter) |-> counter[i].key]

\* summary.add(values=conflicts) for every list of conflicts, in order
RECURSIVE add_all(_, _, _)
add_all(smry, lists_, i) ==
    IF i > Len(lists_) THEN smry
    ELSE add_all(ConflictSummary_add(smry, lists_[i], 1), lists_, i + 1)

\* DataFrameViolation.summarize_conflicts with a summary entry for every
\* group, conflicting or not
summarize_conflicts_all(df, groups, columns, order) ==
    LET conflicts == [i \in 1..Len(order) |->
                         KeyList(values(df, groups, order[i], columns).val)]
    IN  add_all(<<>>, conflicts, 1)

\* DataFrameViolation.summarize_conflicts: order is the order in which the
\* set self.keys() is iterated; only a group with more than one value is
\* added to the summary.
summarize_conflicts(df, groups, columns, order) ==
    LET conflicts == [i \in 1..Len(order) |->
                         KeyList(values(df, groups, order[i], columns).val)]
        MoreThanOne(c) == Len(c) > 1
    IN  add_all(<<>>, SelectSeq(conflicts, MoreThanOne), 1)

\* Counter.most_common sorts by count, largest first, and keeps the order of
\* the dictionary among equal counts: x goes behind the entries with a
\* count that is not smaller.
RECURSIVE sorted_by_count(_, _, _)
sorted_by_count(items, i, out) ==
    IF i > Len(items) THEN out
    ELSE LET x == items[i]
             k == Cardinality({j \in 1..Len(out) : out[j].val >= x.val})
         IN  sorted_by_count(items, i + 1,
                 SubSeq(out, 1, k) \o <<x>> \o SubSeq(out, k + 1, Len(out)))

\* The pairs (key, val.count) of the summary, in dictionary order.
CountItems(smry) ==
    [i \in 1..Len(smry) |-> [key |-> smry[i].key, val |-> smry[i].val.count]]

\* ConflictSummary.most_common without the ranking by count
most_common_unranked(smry, n) ==
    LET items == CountItems(smry)
    IN  SubSeq(items, 1, IF n < Len(items) THEN n ELSE Len(items))

\* ConflictSummary.most_common
most_common(smry, n) ==
    LET ranked == sorted_by_count(CountItems(smry), 1, <<>>)
    IN  SubSeq(ranked, 1, IF n < Len(ranked) THEN n ELSE Len(ranked))


VRowValues == {<<1, 1>>, <<2, 1>>, <<2, 2>>}
VTables ==
    [columns : {TableColumns},
     dtype : {"int"},
     labels : {[i \in 1..MaxVRows |-> i - 1]},
     rows : [1..MaxVRows -> VRowValues]]

\* Row lists of a group: positions of the data frame, in table order.
VRowLists ==
    {s \in UNION {[1..m -> 0..(MaxVRows - 1)] : m \in 0..MaxVRows} :
        \A i, j \in 1..Len(s) : i < j => s[i] < s[j]}
VGroupings == UNION {[ks -> VRowLists] : ks \in SUBSET Keys}

\* "k1" is added without metadata, "k2" with a counter.
VMeta(groups) ==
    [k \in DOMAIN groups |->
        IF k = "k1" THEN NoneMeta
        ELSE [none |-> FALSE, counter |-> <<[key |-> 1, val |-> 2]>>]]

ValueColumns == {<<"a">>, <<"b">>, <<"a", "b">>}
LookupKeys == Keys \cup {"k3"}
KeyOrders(groups) ==
    {o \in [1..Cardinality(DOMAIN groups) -> DOMAIN groups] :
        \A i, j \in 1..Len(o) : i # j => o[i] # o[j]}

NoRanking == [called |-> FALSE, n |-> 0, pairs |-> <<>>]
NoLookup == [method |-> "", key |-> "", columns |-> <<>>, kind |-> "",
             val |-> <<>>, groups |-> EmptyDict, meta |-> EmptyDict]
Lookup(method, key, columns, r) ==
    [method |-> method, key |-> key, columns |-> columns, kind |-> r.kind,
     val |-> r.val, groups |-> v_groups, meta |-> v_meta]

ConflictIdle ==
    /\ vdf = NoResult.df
    /\ summary = <<>>
    /\ sumcols = <<>>
    /\ ranking = NoRanking
    /\ lastLookup = NoLookup
    /\ distinctAdds = TRUE

\* A DataFrameViolation with its groups and metadata.
ConflictInit ==
    /\ vdf \in VTables
    /\ v_groups \in VGroupings
    /\ v_meta = VMeta(v_groups)
    /\ g_groups = EmptyDict
    /\ lastAdd = [cls |-> "", key |-> "", raised |-> "",
                  groups |-> EmptyDict, meta |-> EmptyDict]
    /\ summary = <<>>
    /\ sumcols = <<>>
    /\ ranking = NoRanking
    /\ lastLookup = NoLookup
    /\ distinctAdds = TRUE

Fresh == sumcols = <<>> /\ lastLookup.method = ""

\* violation.summarize_conflicts(columns)
call_summarize_conflicts ==
    /\ Fresh
    /\ \E columns \in ValueColumns, order \in KeyOrders(v_groups) :
          /\ summary' = summarize_conflicts(vdf, v_groups, columns, order)
          /\ sumcols' = columns
    /\ UNCHANGED <<vdf, ranking, lastLookup, distinctAdds>>
    /\ UNCHANGED <<runVars, buildVars, groupVars, mapVars, evalVars, engineVars>>

\* violation.get(key)
call_get ==
    /\ Fresh
    /\ \E key \in LookupKeys :
          LET r == get([df |-> vdf, items |-> ItemsOf(v_groups)], key)
          IN  lastLookup' = Lookup("get", key, <<>>,
                                   [kind |-> r.kind, val |-> r.pos])
    /\ UNCHANGED <<vdf, summary, sumcols, ranking, distinctAdds>>
    /\ UNCHANGED <<runVars, buildVars, groupVars, mapVars, evalVars, engineVars>>

\* violation.rows(key)
call_rows ==
    /\ Fresh
    /\ \E key \in LookupKeys :
          lastLookup' = Lookup("rows", key, <<>>, rows(v_groups, key))
    /\ UNCHANGED <<vdf, summary, sumcols, ranking, distinctAdds>>
    /\ UNCHANGED <<runVars, buildVars, groupVars, mapVars, evalVars, engineVars>>

\* violation.values(key, columns)
call_values ==
    /\ Fresh
    /\ \E key \in LookupKeys, columns \in ValueColumns :
          lastLookup' = Lookup("values", key, columns,
                               values(vdf, v_groups, key, columns))
    /\ UNCHANGED <<vdf, summary, sumcols, ranking, distinctAdds>>
    /\ UNCHANGED <<runVars, buildVars, groupVars, mapVars, evalVars, engineVars>>

\* violation.get_meta(key)
call_get_meta ==
    /\ Fresh
    /\ \E key \in LookupKeys :
          lastLookup' = Lookup("get_meta", key, <<>>, get_meta(v_meta, key))
    /\ UNCHANGED <<vdf, summary, sumcols, ranking, distinctAdds>>
    /\ UNCHANGED <<runVars, buildVars, groupVars, mapVars, evalVars, engineVars>>

\* Values given to ConflictSummary.add: lists of scalars; a value may occur
\* more than once in a list.
SummaryValues == {[t |-> FALSE, v |-> <<x>>] : x \in 1..3}
ValueLists == UNION {[1..m -> SummaryValues] : m \in 1..3}

\* summary.add(values) that counts no partners for the first value of the
\* summary
call_summary_add_onesided ==
    /\ ~ranking.called
    /\ \E values_ \in ValueLists :
          LET added == ConflictSummary_add(summary, values_, 1)
          IN  /\ \A i \in 1..Len(added) : added[i].val.count <= MaxCount
              /\ summary' = [added EXCEPT ![1].val.values = <<>>]
              /\ distinctAdds' =
                    (distinctAdds /\ Cardinality(Range(values_)) = Len(values_))
    /\ UNCHANGED <<vdf, sumcols, ranking, lastLookup>>
    /\ UNCHANGED <<runVars, buildVars, groupVars, mapVars, evalVars, engineVars>>

\* summary.add(values)
call_summary_add ==
    /\ ~ranking.called
    /\ \E values_ \in ValueLists :
          LET added == ConflictSummary_add(summary, values_, 1)
          IN  /\ \A i \in 1..Len(added) : added[i].val.count <= MaxCount
              /\ summary' = added
              /\ distinctAdds' =
                    (distinctAdds /\ Cardinality(Range(values_)) = Len(values_))
    /\ UNCHANGED <<vdf, sumcols, ranking, lastLookup>>
    /\ UNCHANGED <<runVars, buildVars, groupVars, mapVars, evalVars, engineVars>>

\* summary.most_common(n); n = 10 is the default.
call_most_common ==
    /\ ~ranking.called
    /\ \E n \in 0..3 \cup {10} :
          ranking' = [called |-> TRUE, n |-> n,
                      pairs |-> most_common(summary, n)]
    /\ UNCHANGED <<vdf, summary, sumcols, lastLookup, distinctAdds>>
    /\ UNCHANGED <<runVars, buildVars, groupVars, mapVars, evalVars, engineVars>>


(***************************************************************************)
(* Row aggregates  (openclean/function/eval/aggregate/row.py).  Numbers    *)
(* are fractions [num, den]; den = 0 is nan.                               *)
(***************************************************************************)
MaxArgs == 2      \* arguments of Max, Min, Sum, Mean

Aggregators == {"max", "min", "sum", "mean"}

\* Arguments of the constructors: a column name, an evaluation function
\* (Col or Const), or a value that is neither.
ArgStr(name) == [kind |-> "str", name |-> name, val |-> 0]
ArgCol(name) == [kind |-> "Col", name |-> name, val |-> 0]
ArgConst(v) == [kind |-> "Const", name |-> "", val |-> v]
ArgInt(v) == [kind |-> "int", name |-> "", val |-> v]
ArgSet == {ArgStr("a"), ArgStr("b"), ArgCol("b"), ArgConst(1), ArgInt(7)}
ArgLists == UNION {[1..m -> ArgSet] : m \in 0..MaxArgs}

isinstance_EvalFunction(arg) == arg.kind \in {"Col", "Const"}

\* Col(name): a column function that is not bound to a schema yet.
Col(name) == [kind |-> "Col", name |-> name, val |-> 0, idx |-> 0]
AsFunction(arg) ==
    [kind |-> arg.kind, name |-> arg.name, val |-> arg.val, idx |-> 0]

\* colfunc(func): [err, func]
colfunc(func) ==
    IF ~isinstance_EvalFunction(func)
    THEN IF func.kind = "str"
         THEN [err |-> "", func |-> Col(func.name)]
         ELSE [err |-> "ValueError", func |-> Col("")]
    ELSE [err |-> "", func |-> AsFunction(func)]

\* f.prepare(df) of a child: a column function binds its name to the
\* position of the column.
child_prepare(f, schema) ==
    IF f.kind = "Col" THEN [f EXCEPT !.idx = IndexOf(schema, f.name)] ELSE f

\* f.eval(values) of a child
child_eval(f, row) == IF f.kind = "Col" THEN row[f.idx] ELSE f.val

Number(v) == [num |-> v, den |-> 1]
NaN == [num |-> 0, den |-> 0]

RECURSIVE sum(_)
sum(list) == IF list = <<>> THEN 0 ELSE Head(list) + sum(Tail(list))

RECURSIVE gcd(_, _)
gcd(a, b) == IF b = 0 THEN a ELSE gcd(b, a % b)

\* aggregator(list): [err, out] for max, min, sum and numpy.mean
aggregate(aggregator, list) ==
    CASE aggregator = "max" ->
           IF list = <<>> THEN [err |-> "ValueError", out |-> NaN]
           ELSE [err |-> "",
                 out |-> Number(CHOOSE x \in Range(list) :
                                    \A y \in Range(list) : x >= y)]
      [] aggregator = "min" ->
           IF list = <<>> THEN [err |-> "ValueError", out |-> NaN]
           ELSE [err |-> "",
                 out |-> Number(CHOOSE x \in Range(list) :
                                    \A y \in Range(list) : x <= y)]
      [] aggregator = "sum" -> [err |-> "", out |-> Number(sum(list))]
      [] OTHER ->
           IF list = <<>> THEN [err |-> "", out |-> NaN]
           ELSE LET d == gcd(sum(list), Len(list))
                IN  [err |-> "",
                     out |-> [num |-> sum(list) \div d, den |-> Len(list) \div d]]


NoFunction == [stage |-> "new", aggregator |-> "", values |-> <<>>, err |-> ""]
NoEval == [list |-> <<>>, out |-> NaN, err |-> ""]

\* Max(*args), Min(*args), Sum(*args), Mean(*args):
\* values = [colfunc(arg) for arg in args], then RowCellsFunction.__init__.
RowCellsFunction_init(aggregator, args) ==
    LET funcs == [i \in 1..Len(args) |-> colfunc(args[i])]
    IN  IF \E i \in 1..Len(args) : funcs[i].err # ""
        THEN [stage |-> "raised", aggregator |-> aggregator, values |-> <<>>,
              err |-> "ValueError"]
        ELSE [stage |-> "constructed", aggregator |-> aggregator,
              values |-> [i \in 1..Len(args) |-> funcs[i].func], err |-> ""]

\* RowCellsFunction.prepare
RowCellsFunction_prepare(fn, schema) ==
    [fn EXCEPT !.stage = "prepared",
               !.values = [i \in 1..Len(fn.values) |->
                              child_prepare(fn.values[i], schema)]]

\* RowCellsFunction.eval with the values of the children in reverse order
RowCellsFunction_eval_reversed(fn, row) ==
    LET k == Len(fn.values)
        list == [i \in 1..k |-> child_eval(fn.values[k + 1 - i], row)]
        r == aggregate(fn.aggregator, list)
    IN  [list |-> list, out |-> r.out, err |-> r.err]

\* RowCellsFunction.eval
RowCellsFunction_eval(fn, row) ==
    LET list == [i \in 1..Len(fn.values) |-> child_eval(fn.values[i], row)]
        r == aggregate(fn.aggregator, list)
    IN  [list |-> list, out |-> r.out, err |-> r.err]

Schemas == {<<"a", "b">>, <<"b", "a">>}
EvalRows == [1..2 -> 0..2]

EvalInit ==
    /\ eargs \in ArgLists
    /\ eschema \in Schemas
    /\ erow \in EvalRows
    /\ efn = NoFunction
    /\ eres = NoEval

EvalIdle ==
    /\ eargs = <<>>
    /\ eschema = <<>>
    /\ erow = <<>>
    /\ efn = NoFunction
    /\ eres = NoEval

\* f = Max(*args), Min(*args), Sum(*args) or Mean(*args)
call_construct ==
    /\ efn.stage = "new"
    /\ \E aggregator \in Aggregators :
          efn' = RowCellsFunction_init(aggregator, eargs)
    /\ UNCHANGED <<eargs, eschema, erow, eres>>
    /\ UNCHANGED <<runVars, buildVars, groupVars, mapVars, conflictVars, engineVars>>

\* f.prepare(df)
call_prepare ==
    /\ efn.stage = "constructed"
    /\ efn' = RowCellsFunction_prepare(efn, eschema)
    /\ UNCHANGED <<eargs, eschema, erow, eres>>
    /\ UNCHANGED <<runVars, buildVars, groupVars, mapVars, conflictVars, engineVars>>

\* f.eval(row)
call_eval ==
    /\ efn.stage = "prepared"
    /\ eres' = RowCellsFunction_eval(efn, erow)
    /\ efn' = [efn EXCEPT !.stage = "evaluated"]
    /\ UNCHANGED <<eargs, eschema, erow>>
    /\ UNCHANGED <<runVars, buildVars, groupVars, mapVars, conflictVars, engineVars>>


(***************************************************************************)
(* Dataset handles of the engine  (openclean/engine/dataset.py).  A data   *)
(* frame is the list of the operations that produced it.  A handle is the  *)
(* record [store, log, nextId].                                            *)
(***************************************************************************)
MaxEntries == 3   \* log entries that are added to the log of a handle

\* store.commit(df, action): a new snapshot with the next version
store_commit(store, df) ==
    Append(store, [version |-> store[Len(store)].version + 1, df |-> df])

\* store.rollback(version): the snapshot of the version becomes the last one
store_rollback(store, version) ==
    LET UpTo(snapshot) == snapshot.version <= version
    IN  SelectSeq(store, UpTo)

\* self._log.add(version, action): the log of a sample does not auto-commit
OperationLog_add(log, identifier, version, action) ==
    Append(log, [identifier |-> identifier, version |-> version,
                 action |-> action, is_committed |-> FALSE])

\* self._log.truncate(at): the first at entries are kept
OperationLog_truncate(log, at) == SubSeq(log, 1, at)

Failed(h, err) ==
    [store |-> h.store, log |-> h.log, nextId |-> h.nextId, ret |-> <<>>,
     err |-> err]

\* DatasetHandle.checkout() without identifier: self.store.checkout()
DatasetHandle_checkout(h) == h.store[Len(h.store)].df

\* DatasetHandle.version: self._log.last_version()
DatasetHandle_version(h) == h.log[Len(h.log)].version

\* DatasetHandle.commit that adds the log entry with the version before the
\* commit
DatasetHandle_commit_stale(h, df, action) ==
    LET store2 == store_commit(h.store, df)
    IN  [store |-> store2,
         log |-> OperationLog_add(h.log, h.nextId,
                                  h.store[Len(h.store)].version, action),
         nextId |-> h.nextId + 1, ret |-> df, err |-> ""]

\* DatasetHandle.commit
DatasetHandle_commit(h, df, action) ==
    LET store2 == store_commit(h.store, df)
    IN  [store |-> store2,
         log |-> OperationLog_add(h.log, h.nextId,
                                  store2[Len(store2)].version, action),
         nextId |-> h.nextId + 1, ret |-> df, err |-> ""]

\* DatasetHandle.insert
DatasetHandle_insert(h) ==
    DatasetHandle_commit(h, Append(DatasetHandle_checkout(h), "insert"),
                         "insert")

\* DatasetHandle.update
DatasetHandle_update(h) ==
    DatasetHandle_commit(h, Append(DatasetHandle_checkout(h), "update"),
                         "update")

\* DataSample.rollback that truncates the log before the check for a
\* committed entry
DataSample_rollback_eager(h, identifier) ==
    IF \E i \in 1..Len(h.log) : h.log[i].identifier = identifier
    THEN LET at == CHOOSE i \in 1..Len(h.log) :
                        h.log[i].identifier = identifier
             op == h.log[at]
             h2 == [store |-> h.store,
                    log |-> OperationLog_truncate(h.log, at),
                    nextId |-> h.nextId]
         IN  IF op.is_committed THEN Failed(h2, "ValueError")
             ELSE [store |-> store_rollback(h.store, op.version),
                   log |-> h2.log, nextId |-> h.nextId,
                   ret |-> DatasetHandle_checkout(
                               [store |-> store_rollback(h.store, op.version)]),
                   err |-> ""]
    ELSE Failed(h, "KeyError")

\* DataSample.rollback: at is the number (pos) of the identified entry, counted
\* from 1.
DataSample_rollback(h, identifier) ==
    IF \E i \in 1..Len(h.log) : h.log[i].identifier = identifier
    THEN LET at == CHOOSE i \in 1..Len(h.log) :
                        h.log[i].identifier = identifier
             op == h.log[at]
             store2 == store_rollback(h.store, op.version)
         IN  IF op.is_committed THEN Failed(h, "ValueError")
             ELSE [store |-> store2,
                   log |-> OperationLog_truncate(h.log, at),
                   nextId |-> h.nextId,
                   ret |-> DatasetHandle_checkout([store |-> store2]),
                   err |-> ""]
    ELSE Failed(h, "KeyError")


\* The loop of exec_operations from operation i on: [df, store, marked,
\* err], marked being the operations whose is_committed flag was set.
RECURSIVE exec_loop(_, _, _, _, _, _)
exec_loop(df, operations, i, store, withStore, marked) ==
    IF i > Len(operations)
    THEN [df |-> df, store |-> store, marked |-> marked, err |-> ""]
    ELSE LET action == operations[i].action
         IN  IF action \notin {"insert", "update"}
             THEN [df |-> df, store |-> store, marked |-> marked,
                   err |-> "RuntimeError"]
             ELSE exec_loop(Append(df, action), operations, i + 1,
                            IF withStore
                            THEN store_commit(store, Append(df, action))
                            ELSE store,
                            withStore,
                            IF withStore THEN marked \cup {i} ELSE marked)

\* exec_operations with the operations taken from the end of the list
exec_operations_reversed(df, operations, store, withStore) ==
    LET n == Len(operations)
        r == exec_loop(df, [i \in 1..n |-> operations[n + 1 - i]], 1, store,
                       withStore, {})
    IN  [r EXCEPT !.marked = {n + 1 - i : i \in r.marked}]

\* exec_operations(df, operations, datastore)
exec_operations(df, operations, store, withStore) ==
    exec_loop(df, operations, 1, store, withStore, {})

Handle == [store |-> dstore, log |-> dlog, nextId |-> nextId]
NoOp == [name |-> "", arg |-> 0, err |-> "", ret |-> <<>>, store |-> <<>>,
         log |-> <<>>, fstore |-> <<>>, withStore |-> FALSE]

\* A DataSample after __init__: the sample is the first snapshot of its
\* store and the first entry of its log; a full dataset with one snapshot.
EngineInit ==
    /\ dstore = <<[version |-> 0, df |-> <<"sample">>]>>
    /\ \E c \in BOOLEAN :
          dlog = <<[identifier |-> 0, version |-> 0, action |-> "sample",
                    is_committed |-> c]>>
    /\ nextId = 1
    /\ fstore = <<[version |-> 0, df |-> <<"full">>]>>
    /\ lastOp = NoOp

EngineIdle ==
    /\ dstore = <<>>
    /\ dlog = <<>>
    /\ nextId = 0
    /\ fstore = <<>>
    /\ lastOp = NoOp

\* The call of a method of the handle with result r.
HandleCall(name, arg, r) ==
    /\ dstore' = r.store
    /\ dlog' = r.log
    /\ nextId' = r.nextId
    /\ lastOp' = [name |-> name, arg |-> arg, err |-> r.err, ret |-> r.ret,
                  store |-> dstore, log |-> dlog, fstore |-> fstore,
                  withStore |-> FALSE]
    /\ UNCHANGED fstore
    /\ UNCHANGED <<runVars, buildVars, groupVars, mapVars, conflictVars,
                   evalVars>>

\* ds.commit(df)
call_ds_commit ==
    /\ nextId <= MaxEntries
    /\ HandleCall("commit", 0, DatasetHandle_commit(Handle, <<"user">>, "commit"))

\* ds.insert(names)
call_ds_insert ==
    /\ nextId <= MaxEntries
    /\ HandleCall("insert", 0, DatasetHandle_insert(Handle))

\* ds.update(columns, func)
call_ds_update ==
    /\ nextId <= MaxEntries
    /\ HandleCall("update", 0, DatasetHandle_update(Handle))

\* ds.rollback(identifier)
call_rollback ==
    \E identifier \in 0..nextId :
        HandleCall("rollback", identifier,
                   DataSample_rollback(Handle, identifier))

\* exec_operations(df, operations, datastore) with the last snapshot of the
\* full dataset and log entries of the sample.
call_exec_operations ==
    /\ Len(fstore) = 1
    /\ \E first \in 1..2, withStore \in BOOLEAN :
          LET operations == SubSeq(dlog, first, Len(dlog))
              r == exec_operations(fstore[Len(fstore)].df, operations, fstore,
                                   withStore)
          IN  /\ fstore' = r.store
              /\ dlog' = [i \in 1..Len(dlog) |->
                             IF (i - first + 1) \in r.marked
                             THEN [dlog[i] EXCEPT !.is_committed = TRUE]
                             ELSE dlog[i]]
              /\ lastOp' = [name |-> "exec", arg |-> first, err |-> r.err,
                            ret |-> r.df, store |-> dstore, log |-> dlog,
                            fstore |-> fstore, withStore |-> withStore]
    /\ UNCHANGED <<dstore, nextId>>
    /\ UNCHANGED <<runVars, buildVars, groupVars, mapVars, conflictVars,
                   evalVars>>


(***************************************************************************)
(* Specifications.                                                         *)
(***************************************************************************)
RunIdle ==
    /\ source = <<>>
    /\ ops = <<>>
    /\ mode = "none"
    /\ pc = "idle"
    /\ chain = <<>>
    /\ pos = 0
    /\ readerOpen = FALSE
    /\ opens = 0
    /\ releases = 0
    /\ events = <<>>
    /\ result = None
    /\ raised = ""
    /\ yielded = <<>>

\* No pipeline object is built: stream(filename) alone.
BuildIdle ==
    /\ lists = <<<<>>>>
    /\ pipes = <<1>>
    /\ parent = <<[of |-> 0, op |-> Typecast]>>
    /\ prevLists = lists
    /\ lastCall = [name |-> "__init__", self |-> 0, ret |-> 1, err |-> "",
                   names |-> FALSE, lim |-> FALSE]

\* One execution of run() or iterrows().
Init == RunInit /\ BuildIdle /\ GroupInit /\ MapIdle /\ ConflictIdle /\ EvalIdle /\ EngineIdle

Next ==
    \/ run_begin
    \/ run_consume
    \/ run_exhausted
    \/ run_close
    \/ iterrows_begin
    \/ iterrows_consume
    \/ iterrows_exhausted
    \/ iterrows_close

Spec == Init /\ [][Next]_vars

\* Builder and execution calls on pipeline objects.
InitBuild == RunIdle /\ BuildInit /\ GroupInit /\ MapIdle /\ ConflictIdle /\ EvalIdle /\ EngineIdle

NextBuild ==
    \/ call_append
    \/ call_select
    \/ call_filter
    \/ call_where
    \/ call_delete
    \/ call_insert
    \/ call_update
    \/ call_typecast
    \/ call_limit
    \/ call_run
    \/ call_stream
    \/ call_count
    \/ call_distinct
    \/ call_head
    \/ call_to_df
    \/ call_profile
    \/ call_write

SpecBuild == InitBuild /\ [][NextBuild]_vars

\* add calls on a DataFrameGrouping and on a DataFrameViolation.
InitGroup == RunIdle /\ BuildIdle /\ GroupInit /\ MapIdle /\ ConflictIdle /\ EvalIdle /\ EngineIdle

NextGroup ==
    \/ grouping_add
    \/ violation_add

SpecGroup == InitGroup /\ [][NextGroup]_vars

\* One call of GroupBy.map or of groupby on a data frame.
InitMap == RunIdle /\ BuildIdle /\ GroupInit /\ MapInit /\ ConflictIdle /\ EvalIdle /\ EngineIdle

NextMap ==
    \/ call_map
    \/ call_groupby

SpecMap == InitMap /\ [][NextMap]_vars

\* One lookup in, or one summary of, a DataFrameViolation.
InitConflict == RunIdle /\ BuildIdle /\ MapIdle /\ ConflictInit /\ EvalIdle /\ EngineIdle

NextConflict ==
    \/ call_summarize_conflicts
    \/ call_get
    \/ call_rows
    \/ call_values
    \/ call_get_meta

SpecConflict == InitConflict /\ [][NextConflict]_vars

\* A ConflictSummary that is filled by add and then ranked.
InitSummary == RunIdle /\ BuildIdle /\ GroupInit /\ MapIdle /\ ConflictIdle /\ EvalIdle /\ EngineIdle

NextSummary ==
    \/ call_summary_add
    \/ call_most_common

SpecSummary == InitSummary /\ [][NextSummary]_vars

\* One row aggregate is constructed, prepared and evaluated on one row.
InitEval ==
    RunIdle /\ BuildIdle /\ GroupInit /\ MapIdle /\ ConflictIdle /\ EvalInit
        /\ EngineIdle

NextEval ==
    \/ call_construct
    \/ call_prepare
    \/ call_eval

SpecEval == InitEval /\ [][NextEval]_vars

\* A data sample that is changed, rolled back and re-applied to the full
\* dataset.
InitEngine ==
    RunIdle /\ BuildIdle /\ GroupInit /\ MapIdle /\ ConflictIdle /\ EvalIdle
        /\ EngineInit

NextEngine ==
    \/ call_ds_commit
    \/ call_ds_insert
    \/ call_ds_update
    \/ call_rollback
    \/ call_exec_operations

SpecEngine == InitEngine /\ [][NextEngine]_vars

(***************************************************************************)
(* Properties of run() and iterrows()  (specification Spec).               *)
(***************************************************************************)
Count_of(e, s) == Cardinality({i \in 1..Len(s) : s[i] = e})

\* The rows an execution delivered: the table of to_df(), or the rows
\* yielded by iterrows().
OutRows == IF mode = "run" THEN result.rows ELSE yielded

\* The executed pipeline is limit(n) alone: head(n), or iterrows() on limit(n).
LimitOnly(n) ==
    \/ mode = "run" /\ ops = <<Limit(n), DataFrame>>
    \/ mode = "iterrows" /\ ops = <<Limit(n)>>

C2_OpenConsumeClose ==
    /\ \A i, j \in 1..Len(events) :
           (i < j /\ events[i] \in {"stop", "close"}) => events[j] # "consume"
    /\ \A i \in 1..Len(events) : (events[i] = "open") <=> (i = 1)
    /\ Count_of("close", events) <= 1
    /\ Count_of("stop", events) <= 1
    /\ (pc = "close") =>
           /\ Count_of("close", events) = 0
           /\ Count_of("stop", events) = 1 \/ pos = Len(source)
    /\ (pc = "done" /\ ops # <<>>) =>
           /\ events[Len(events)] = "close"
           /\ Count_of("stop", events) = 1 \/ pos = Len(source)
    /\ (Count_of("stop", events) = 1) => pc \in {"close", "done"}

C2_Witness ==
    /\ pc = "done"
    /\ Count_of("stop", events) = 1
    /\ Count_of("close", events) = 1
    /\ pos < Len(source)
    /\ Count_of("consume", events) = 2

\* C3: filter(p).to_df() returns exactly the source rows for which p holds,
\* in source order, each with its row identifier, under the source's columns.
AgeAbove1(r) == r.row[2] > 1

C3_FilterToDf ==
    (mode = "run" /\ pc = "done" /\ ops = <<Filter("Age", 1, FALSE), DataFrame>>)
        => result = Frame(SourceSchema, SelectSeq(source, AgeAbove1))

C3_Witness ==
    /\ mode = "run"
    /\ pc = "done"
    /\ ops = <<Filter("Age", 1, FALSE), DataFrame>>
    /\ Len(source) = 3
    /\ Len(result.rows) = 1
    /\ result.rows[1] = source[2]

\* C6: run() on a pipeline without operators returns None and neither opens
\* nor reads the row source.
C6_EmptyRun ==
    (mode = "run" /\ ops = <<>>) =>
        /\ pc = "done"
        /\ result = None
        /\ opens = 0
        /\ ~readerOpen
        /\ pos = 0
        /\ events = <<>>

C6_Witness ==
    /\ mode = "run"
    /\ ops = <<>>
    /\ pc = "done"
    /\ Len(source) > 0

C8_NoPartialResult ==
    mode = "run" =>
        /\ ("error" \in Range(events)) =>
               /\ pc = "raised"
               /\ raised = "error"
               /\ result = None
        /\ (pc = "done" /\ ops # <<>>) =>
               /\ raised = ""
               /\ Count_of("stop", events) = 1 \/ pos = Len(source)

C8_Witness ==
    /\ mode = "run"
    /\ pc = "raised"
    /\ raised = "error"
    /\ ops = <<Filter("Age", 1, FALSE), DataFrame>>
    /\ chain[2].data # <<>>
    /\ result = None

(***************************************************************************)
(* Properties of the builder calls  (specification SpecBuild).             *)
(***************************************************************************)
IsPrefix(s, t) == Len(s) <= Len(t) /\ SubSeq(t, 1, Len(s)) = s

OneOpBuilders == {"select", "filter", "insert", "update", "typecast"}

\* The operator list the called pipeline had before the call.
SelfBefore == prevLists[pipes[lastCall.self]]

\* C4, as claimed: select, filter, insert, update and typecast return a
\* pipeline whose operator list is that of the called pipeline followed by
\* exactly one new operator, whatever the arguments.
C4_ExactlyOne ==
    (lastCall.name \in OneOpBuilders /\ lastCall.ret # 0) =>
        /\ IsPrefix(SelfBefore, OpsOf(lastCall.ret))
        /\ Len(OpsOf(lastCall.ret)) = Len(SelfBefore) + 1

\* C4, amended: the returned list is the called pipeline's list followed by
\* exactly one new operator, except that select with names appends two
\* (Select, then Rename) and filter with a limit appends two (Filter, then
\* Limit).
C4_OneOrTwo ==
    (lastCall.name \in OneOpBuilders /\ lastCall.ret # 0) =>
        LET new == OpsOf(lastCall.ret)
            n == Len(SelfBefore)
        IN  /\ IsPrefix(SelfBefore, new)
            /\ IF lastCall.name = "select" /\ lastCall.names
               THEN /\ Len(new) = n + 2
                    /\ new[n + 1].kind = "Select"
                    /\ new[n + 2].kind = "Rename"
               ELSE IF lastCall.name = "filter" /\ lastCall.lim
               THEN /\ Len(new) = n + 2
                    /\ new[n + 1].kind = "Filter"
                    /\ new[n + 2].kind = "Limit"
               ELSE /\ Len(new) = n + 1
                    /\ new[n + 1].kind =
                         CASE lastCall.name = "select" -> "Select"
                           [] lastCall.name = "filter" -> "Filter"
                           [] lastCall.name = "insert" -> "InsCol"
                           [] lastCall.name = "update" -> "Update"
                           [] OTHER -> "Typecast"

C4_Witness ==
    /\ lastCall.name = "select"
    /\ lastCall.names
    /\ lastCall.ret # 0
    /\ SelfBefore # <<>>
    /\ Len(OpsOf(lastCall.ret)) = Len(SelfBefore) + 2

\* C5: no call changes the operator list of an existing pipeline, in
\* particular that of the pipeline it is called on, and every pipeline's list
\* is the list of the pipeline it was derived from followed by its own
\* operator: pipelines derived from the same pipeline do not see each
\* other's operators.
C5_NoMutation ==
    /\ IsPrefix(prevLists, lists)
    /\ lastCall.self # 0 => OpsOf(lastCall.self) = SelfBefore
    /\ \A q \in Pipes :
           parent[q].of # 0 =>
               OpsOf(q) = OpsOf(parent[q].of) \o <<parent[q].op>>

C5_Witness ==
    \E q1, q2 \in Pipes :
        /\ q1 # q2
        /\ parent[q1].of = 1
        /\ parent[q2].of = 1
        /\ parent[q1].op # parent[q2].op
        /\ OpsOf(1) = <<Limit(2)>>
        /\ lastCall.name = "to_df"

(***************************************************************************)
(* Properties of the groupings  (specification SpecGroup).                 *)
(***************************************************************************)
\* C9: DataFrameGrouping.add with a key that is present raises ValueError
\* and leaves the keys and the row list of every key as they were.
C9_DuplicateKey ==
    (lastAdd.cls = "DataFrameGrouping" /\ lastAdd.key \in DOMAIN lastAdd.groups)
        => /\ lastAdd.raised = "ValueError"
           /\ DOMAIN g_groups = DOMAIN lastAdd.groups
           /\ g_groups = lastAdd.groups

C9_Witness ==
    /\ lastAdd.cls = "DataFrameGrouping"
    /\ lastAdd.raised = "ValueError"
    /\ lastAdd.key = "k1"
    /\ g_groups["k1"] = <<0, 1>>
    /\ DOMAIN g_groups = {"k1"}

\* C10: DataFrameViolation.add with a key that is present raises ValueError
\* and leaves the row list and the metadata of that key as they were; the
\* metadata keys always equal the group keys.
C10_DuplicateKeyMeta ==
    /\ (lastAdd.cls = "DataFrameViolation"
            /\ lastAdd.key \in DOMAIN lastAdd.groups)
          => /\ lastAdd.raised = "ValueError"
             /\ v_groups = lastAdd.groups
             /\ v_meta = lastAdd.meta
    /\ DOMAIN v_meta = DOMAIN v_groups

(***************************************************************************)
(* Properties of groupby  (specification SpecMap).                         *)
(***************************************************************************)
\* The keys of the rows of the given data frame and, for a key, the
\* positions of the rows that evaluate to it.
TKeys == {KeyOf(tdf, gfunc, i) : i \in 1..NRows(tdf)}
TRowsOf(k) == {p \in Positions(tdf) : KeyOf(tdf, gfunc, p + 1) = k}

\* C11: in the grouping returned by GroupBy.map the keys are the keys of
\* the rows of the table and get(k) returns exactly the rows r of the table
\* with f(r) = k.
C11_GroupsPartition ==
    gres.op = "map"
        => /\ gres.err = ""
           /\ DictKeys(gres.items) = TKeys
           /\ \A k \in TKeys :
                  get(gres, k) = [kind |-> "frame", pos |-> TRowsOf(k)]

\* C12: every row index stored by GroupBy.map is a position 0 <= i < n in
\* the grouping's own table, and the row at that position produced the key,
\* also for a table whose labels are unique integers other than 0..n-1.
C12_StoredPositions ==
    gres.op = "map"
        => \A e \in Range(gres.items) : \A r \in Range(e.val) :
               /\ r \in Positions(gres.df)
               /\ KeyOf(gres.df, gfunc, r + 1) = e.key

\* C13: groupby with having = N returns a grouping whose keys are exactly
\* the keys whose group has N rows.
C13_HavingInt ==
    (gres.op = "groupby" /\ ghaving.kind = "int")
        => /\ gres.err = ""
           /\ DictKeys(gres.items)
                = {k \in TKeys : Cardinality(TRowsOf(k)) = ghaving.n}

\* C14: groupby with a callable having keeps exactly the groups for which
\* the callable returns True; a callable that returns a non-boolean for a
\* group makes the call raise TypeError and return no grouping.
C14_HavingCallable ==
    (gres.op = "groupby" /\ ghaving.kind = "callable")
        => LET res(k) == HavingResult(ghaving.f, Cardinality(TRowsOf(k)))
           IN  IF \A k \in TKeys : res(k) # "NonBool"
               THEN /\ gres.err = ""
                    /\ DictKeys(gres.items) = {k \in TKeys : res(k) = "True"}
               ELSE /\ gres.err = "TypeError"
                    /\ gres.items = <<>>

(***************************************************************************)
(* Properties of conflict summaries and lookups                            *)
(* (specifications SpecConflict and SpecSummary).                          *)
(***************************************************************************)
\* The values of the rows of a group in the given columns.
GroupValues(k, columns) ==
    {RowValue(vdf, select_clause(vdf.columns, columns), r) :
        r \in Range(v_groups[k])}
ConflictGroups(columns) ==
    {k \in DOMAIN v_groups : Cardinality(GroupValues(k, columns)) > 1}
CountOf(counter, x) == IF DictHas(counter, x) THEN DictGet(counter, x) ELSE 0

\* C15: in the summary of summarize_conflicts the count of a value v is the
\* number of groups with more than one distinct value that contain v, the
\* partner counter of v at w is the number of such groups that contain both,
\* and a value that only occurs in groups with one distinct value is no key.
C15_ConflictCounts ==
    sumcols # <<>>
        => LET groupsOf(v) == {k \in ConflictGroups(sumcols) :
                                  v \in GroupValues(k, sumcols)}
           IN  /\ DictKeys(summary)
                    = UNION {GroupValues(k, sumcols) :
                                k \in ConflictGroups(sumcols)}
               /\ \A v \in DictKeys(summary) :
                     /\ DictGet(summary, v).count = Cardinality(groupsOf(v))
                     /\ ~DictHas(DictGet(summary, v).values, v)
                     /\ \A w \in DictKeys(summary) \ {v} :
                           CountOf(DictGet(summary, v).values, w)
                             = Cardinality(groupsOf(v) \cap groupsOf(w))

C15_Witness ==
    /\ sumcols = <<"a", "b">>
    /\ Len(summary) = 2
    /\ \E k \in DOMAIN v_groups :
          /\ Cardinality(GroupValues(k, sumcols)) = 1
          /\ GroupValues(k, sumcols) \cap DictKeys(summary) = {}

\* The place of a value in the insertion order of the summary.
Place(v) == CHOOSE i \in 1..Len(summary) : summary[i].key = v
Before(p, q) ==
    \/ p.val > q.val
    \/ p.val = q.val /\ Place(p.key) < Place(q.key)

\* C16: most_common(n) returns at most n pairs (value, count) of the
\* summary, by count descending, values with equal counts in the order of
\* their first insertion; no value left out ranks before a value returned.
C16_Ranking ==
    ranking.called
        => LET pairs == ranking.pairs
           IN  /\ Len(pairs) <= ranking.n
               /\ Len(pairs) = Len(summary) \/ Len(pairs) = ranking.n
               /\ Range(pairs) \subseteq Range(CountItems(summary))
               /\ \A i, j \in 1..Len(pairs) : i < j => Before(pairs[i], pairs[j])
               /\ \A q \in Range(CountItems(summary)) \ Range(pairs) :
                     \A i \in 1..Len(pairs) : Before(pairs[i], q)

C16_Witness ==
    /\ ranking.called
    /\ ranking.n = 2
    /\ Len(summary) = 3
    /\ summary[1].val.count = 1
    /\ summary[2].val.count = 2
    /\ summary[3].val.count = 2
    /\ ranking.pairs = <<[key |-> summary[2].key, val |-> 2],
                         [key |-> summary[3].key, val |-> 2]>>

\* C17 (as stated): for a key that is not in the grouping get, rows, values
\* and get_meta return None and leave the grouping as it was, and each of
\* them tells an unknown key from a group with an empty row list, for which
\* it does not return None.
C17_NoneOnlyForUnknown ==
    lastLookup.method # ""
        => /\ v_groups = lastLookup.groups /\ v_meta = lastLookup.meta
           /\ lastLookup.key \notin DOMAIN v_groups => lastLookup.kind = "None"
           /\ (lastLookup.key \in DOMAIN v_groups
                 /\ v_groups[lastLookup.key] = <<>>)
                => lastLookup.kind # "None"

\* C17 (amended): for a key that is not in the grouping get, rows, values
\* and get_meta return None and leave the grouping as it was; get, rows and
\* values do not return None for a group, also one with an empty row list,
\* and get_meta returns None for a group exactly if it has no metadata.
C17_UnknownKeyNone ==
    lastLookup.method # ""
        => /\ v_groups = lastLookup.groups /\ v_meta = lastLookup.meta
           /\ lastLookup.key \notin DOMAIN v_groups => lastLookup.kind = "None"
           /\ (lastLookup.key \in DOMAIN v_groups
                 /\ lastLookup.method \in {"get", "rows", "values"})
                => lastLookup.kind # "None"
           /\ (lastLookup.key \in DOMAIN v_groups
                 /\ lastLookup.method = "get_meta")
                => (lastLookup.kind = "None" <=> v_meta[lastLookup.key].none)

C17_Witness ==
    /\ lastLookup.method = "get_meta"
    /\ lastLookup.key = "k3"
    /\ lastLookup.kind = "None"
    /\ DOMAIN v_groups = {"k1", "k2"}
    /\ v_groups["k1"] = <<>>

\* C18: for a key of the grouping values(key, columns) returns a counter
\* whose entry for x is the number of rows of the group whose value in the
\* columns is x (a scalar for one column, a tuple for several); the counts
\* add up to the length of the row list.
C18_ValueCounts ==
    (lastLookup.method = "values" /\ lastLookup.key \in DOMAIN v_groups)
        => LET rowlist == v_groups[lastLookup.key]
               colidx == select_clause(vdf.columns, lastLookup.columns)
               counter == lastLookup.val
               rowsWith(x) == {i \in 1..Len(rowlist) :
                                  RowValue(vdf, colidx, rowlist[i]) = x}
               RECURSIVE total(_)
               total(i) == IF i > Len(counter) THEN 0
                           ELSE counter[i].val + total(i + 1)
           IN  /\ lastLookup.kind = "Counter"
               /\ DictKeys(counter)
                    = {RowValue(vdf, colidx, r) : r \in Range(rowlist)}
               /\ \A x \in DictKeys(counter) :
                     /\ DictGet(counter, x) = Cardinality(rowsWith(x))
                     /\ x.t = (Len(lastLookup.columns) > 1)
                     /\ Len(x.v) = Len(lastLookup.columns)
               /\ total(1) = Len(rowlist)

C18_Witness ==
    /\ lastLookup.method = "values"
    /\ lastLookup.columns = <<"a", "b">>
    /\ lastLookup.key = "k2"
    /\ "k2" \in DOMAIN v_groups
    /\ Len(v_groups["k2"]) = 3
    /\ lastLookup.val = <<[key |-> [t |-> TRUE, v |-> <<2, 1>>], val |-> 2],
                          [key |-> [t |-> TRUE, v |-> <<1, 1>>], val |-> 1]>>

(***************************************************************************)
(* Properties of the row aggregates  (specification SpecEval).             *)
(***************************************************************************)
\* The value of the i-th argument on the row: the cell of a column in the
\* schema given to prepare, or the constant.
ArgValue(i) ==
    IF eargs[i].kind = "Const" THEN eargs[i].val
    ELSE erow[IndexOf(eschema, eargs[i].name)]

SumTo(i) == LET RECURSIVE upto(_)
                upto(j) == IF j = 0 THEN 0 ELSE upto(j - 1) + ArgValue(j)
            IN  upto(i)

\* C19: for Max, Min, Sum and Mean over k >= 1 children eval(row) is the
\* aggregator applied to the list of the children's values in argument
\* order; with one child the result is the value of that child.
C19_ArgumentOrder ==
    (efn.stage = "evaluated" /\ Len(eargs) >= 1)
        => LET k == Len(eargs)
               out == eres.out
           IN  /\ eres.err = ""
               /\ eres.list = [i \in 1..k |-> ArgValue(i)]
               /\ efn.aggregator = "max"
                    => /\ out.den = 1
                       /\ \E i \in 1..k : out.num = ArgValue(i)
                       /\ \A i \in 1..k : out.num >= ArgValue(i)
               /\ efn.aggregator = "min"
                    => /\ out.den = 1
                       /\ \E i \in 1..k : out.num = ArgValue(i)
                       /\ \A i \in 1..k : out.num <= ArgValue(i)
               /\ efn.aggregator = "sum"
                    => out.den = 1 /\ out.num = SumTo(k)
               /\ efn.aggregator = "mean"
                    => out.den > 0 /\ out.num * k = SumTo(k) * out.den
               /\ k = 1 => out = Number(ArgValue(1))

C19_Witness ==
    /\ efn.stage = "evaluated"
    /\ efn.aggregator = "mean"
    /\ eargs = <<ArgStr("b"), ArgConst(1)>>
    /\ eschema = <<"b", "a">>
    /\ eres.list = <<2, 1>>
    /\ eres.out = [num |-> 3, den |-> 2]

\* C20: an argument list with an argument that is neither a column name nor
\* an evaluation function, or with no argument at all, is rejected when the
\* function is constructed: construction raises and nothing is prepared or
\* evaluated.
BadArguments ==
    \/ eargs = <<>>
    \/ \E i \in 1..Len(eargs) : eargs[i].kind \notin {"str", "Col", "Const"}

C20_RejectedAtConstruction ==
    (efn.stage # "new" /\ BadArguments)
        => efn.stage = "raised" /\ efn.err # ""

(***************************************************************************)
(* Further properties of the pipeline builders  (specification SpecBuild). *)
(***************************************************************************)
\* C21: update raises ValueError for fewer than two arguments and then
\* returns no pipeline and appends no operator: an update that returns has
\* at least one column besides the update function.
C21_UpdateArity ==
    lastCall.name = "update"
        => \/ /\ lastCall.err = "ValueError"
              /\ lastCall.ret = 0
              /\ lists = prevLists
           \/ /\ lastCall.err = ""
              /\ lastCall.ret # 0
              /\ OpsOf(lastCall.ret)[Len(OpsOf(lastCall.ret))].cols # <<>>

\* C24: select raises no error, also without a column list: it returns a
\* pipeline whose list ends with a Select (followed by the Rename when
\* names are given).
C24_SelectAllColumns ==
    lastCall.name = "select"
        => /\ lastCall.err = ""
           /\ lastCall.ret # 0
           /\ \E i \in 1..Len(OpsOf(lastCall.ret)) :
                 /\ i > Len(SelfBefore)
                 /\ OpsOf(lastCall.ret)[i].kind = "Select"

(***************************************************************************)
(* Further properties of a pipeline execution  (specification Spec).       *)
(***************************************************************************)
\* The schema the i-th operator is opened with: the schema of the source
\* for the first, the output schema of the previous consumer for the others.
InputSchema(i) == IF i = 1 THEN SourceSchema ELSE chain[i - 1].columns

\* C23: in an opened pipeline there is one consumer per operator, in
\* operator order; the first operator is opened with the schema of the
\* source and every other operator with the output schema of the consumer
\* before it; the first consumer is the one that is given the source rows.
C23_ChainedSchemas ==
    chain # <<>>
        => /\ Len(chain) = Len(ops)
           /\ \A i \in 1..Len(ops) :
                 [chain[i] EXCEPT !.count = 0, !.data = <<>>]
                   = open(ops[i], InputSchema(i))
           /\ (ops[1].kind = "Limit" /\ pc = "loop") => chain[1].count = pos

C23_Witness ==
    /\ Len(chain) = 2
    /\ ops[1].kind = "Select"
    /\ ops[2].kind = "Filter"
    /\ chain[1].columns # SourceSchema
    /\ chain[2].idx = <<1>>
    /\ pos > 0

(***************************************************************************)
(* Further properties of groupby  (specification SpecMap).                 *)
(***************************************************************************)
\* C28: for every kept key the grouping returned by groupby with a having
\* condition has the same backing table and the same row list as the
\* grouping returned without having, and get returns the same rows in both,
\* also when the index of the table had to be reset.
C28_SameAsUnfiltered ==
    (gres.op = "groupby" /\ ghaving.kind # "none")
        => LET unfiltered == groupby(tdf, gfunc, NoHaving)
           IN  /\ gres.err # "IndexError"
               /\ gres.err = ""
                    => /\ gres.df = unfiltered.df
                       /\ \A k \in DictKeys(gres.items) :
                             /\ DictHas(unfiltered.items, k)
                             /\ DictGet(gres.items, k)
                                  = DictGet(unfiltered.items, k)
                             /\ get(gres, k) = get(unfiltered, k)

\* C30: the grouping built by GroupBy.map from a table of n rows is a
\* partition of the rows: every position 0..n-1 is in exactly one group, no
\* group is empty and the indices of a group are strictly increasing.
C30_Partition ==
    gres.op = "map"
        => /\ \A p \in Positions(tdf) :
                 Cardinality({e \in 1..Len(gres.items) :
                                 p \in Range(gres.items[e].val)}) = 1
           /\ \A e \in 1..Len(gres.items) :
                 LET rowlist == gres.items[e].val
                 IN  /\ rowlist # <<>>
                     /\ Range(rowlist) \subseteq Positions(tdf)
                     /\ \A i, j \in 1..Len(rowlist) :
                           i < j => rowlist[i] < rowlist[j]

(***************************************************************************)
(* Further properties of conflict summaries  (specification SpecSummary).  *)
(***************************************************************************)
PartnerCount(v, w) == CountOf(DictGet(summary, v).values, w)

C27_OneEntryPerCommit ==
    (lastOp.name \in {"commit", "insert", "update"} /\ lastOp.err = "")
        => /\ Len(dstore) = Len(lastOp.store) + 1
           /\ SubSeq(dstore, 1, Len(lastOp.store)) = lastOp.store
           /\ Len(dlog) = Len(lastOp.log) + 1
           /\ SubSeq(dlog, 1, Len(lastOp.log)) = lastOp.log
           /\ dlog[Len(dlog)].version = dstore[Len(dstore)].version
           /\ dlog[Len(dlog)].action = lastOp.name
           /\ DatasetHandle_version(Handle) = dstore[Len(dstore)].version
           /\ \E i \in 1..Len(dstore) :
                 /\ dstore[i].version = dlog[Len(dlog)].version
                 /\ DatasetHandle_checkout(Handle) = dstore[i].df
                 /\ lastOp.ret = dstore[i].df

C27_Witness ==
    /\ lastOp.name = "insert"
    /\ lastOp.err = ""
    /\ Len(dlog) = 3
    /\ dlog[2].action = "commit"

\* C25: rollback raises KeyError for an identifier that no log entry has and
\* ValueError for an entry that is committed; in both cases the log and the
\* snapshots of the store are what they were before the call.
C25_RollbackErrors ==
    lastOp.name = "rollback"
        => LET found == {i \in 1..Len(lastOp.log) :
                            lastOp.log[i].identifier = lastOp.arg}
           IN  /\ found = {}
                     => /\ lastOp.err = "KeyError"
                        /\ dlog = lastOp.log
                        /\ dstore = lastOp.store
               /\ (\E i \in found : lastOp.log[i].is_committed)
                     => /\ lastOp.err = "ValueError"
                        /\ dlog = lastOp.log
                        /\ dstore = lastOp.store

C25_Witness ==
    /\ lastOp.name = "rollback"
    /\ lastOp.err = "ValueError"
    /\ Len(dlog) = 3
    /\ dlog[2].identifier = lastOp.arg

\* C22: a rollback to an entry that is not committed removes that entry and
\* every later one from the log, and the snapshot of the entry before it is
\* the last snapshot of the store and the table that is returned.
C22_RollbackBeforeEntry ==
    (lastOp.name = "rollback" /\ lastOp.err = "")
        => \A p \in 2..Len(lastOp.log) :
              lastOp.log[p].identifier = lastOp.arg
                  => /\ dlog = SubSeq(lastOp.log, 1, p - 1)
                     /\ dstore[Len(dstore)].version = lastOp.log[p - 1].version
                     /\ lastOp.ret = dstore[Len(dstore)].df
                     /\ \E i \in 1..Len(lastOp.store) :
                           /\ lastOp.store[i].version = lastOp.log[p - 1].version
                           /\ lastOp.store[i].df = lastOp.ret

\* C26: exec_operations applies the operations in the order of the list,
\* each to the table of the one before; with a datastore every applied
\* operation is committed to it and marked as committed; at the first action
\* that is neither an insert nor an update it raises RuntimeError, the
\* operations before it are applied and committed, none after it is.
C26_ExecInOrder ==
    lastOp.name = "exec"
        => LET operations == SubSeq(lastOp.log, lastOp.arg, Len(lastOp.log))
               bad == {i \in 1..Len(operations) :
                          operations[i].action \notin {"insert", "update"}}
               k == IF bad = {} THEN Len(operations) + 1
                    ELSE CHOOSE i \in bad : \A j \in bad : i <= j
               base == lastOp.fstore[Len(lastOp.fstore)]
               Applied(j) == base.df \o [i \in 1..j |-> operations[i].action]
           IN  /\ (lastOp.err = "RuntimeError") = (bad # {})
               /\ bad = {} => (lastOp.err = "" /\ lastOp.ret = Applied(Len(operations)))
               /\ lastOp.withStore
                     => /\ fstore = lastOp.fstore \o
                              [i \in 1..(k - 1) |->
                                  [version |-> base.version + i,
                                   df |-> Applied(i)]]
                        /\ Len(dlog) = Len(lastOp.log)
                        /\ \A i \in 1..Len(dlog) :
                              dlog[i] =
                                  IF i >= lastOp.arg /\ i - lastOp.arg + 1 < k
                                  THEN [lastOp.log[i] EXCEPT
                                           !.is_committed = TRUE]
                                  ELSE lastOp.log[i]
               /\ ~lastOp.withStore
                     => (fstore = lastOp.fstore /\ dlog = lastOp.log)

C26_Witness ==
    /\ lastOp.name = "exec"
    /\ lastOp.withStore
    /\ lastOp.err = "RuntimeError"
    /\ lastOp.arg = 2
    /\ Len(lastOp.log) = 4
    /\ Len(fstore) = 2

\* C26, a run without error: two operations applied in the order of the list
C26_WitnessAll ==
    /\ lastOp.name = "exec"
    /\ lastOp.err = ""
    /\ lastOp.ret = <<"full", "insert", "update">>

====
